---- MODULE Spec2Model ----
(***************************************************************************)
(* polling-fetch: one invocation of pollingFetch (src/src/index.ts) on an  *)
(* entry point made by parent.create(defaultConfig), where parent is an    *)
(* entry point made by createPollingFetch(parentConfig); with an empty     *)
(* parentConfig the parent is the exported PollingFetch.                   *)
(*                                                                         *)
(* The async function runs to completion between its awaits, so every      *)
(* action below is one such run: from the resumption of an await to the    *)
(* next await (or to settlement).  The caller's AbortController, the       *)
(* transport (fetch), the hooks and the timer queue are the environment:   *)
(* their outcomes are drawn from small sets.                               *)
(***************************************************************************)
EXTENDS Integers, Sequences, FiniteSets, TLC

VARIABLES
  parentConfig,    \* the defaults of the entry point whose create made this one
  defaultConfig,   \* the argument of create
  input,           \* the resource of the call
  init,            \* the options of the call
  signal,          \* init.signal: "none" (not given), "active", "aborted"
  pc,              \* where the async function is suspended
  mergedConfig,    \* index.ts:50
  requestInput,    \* index.ts:63
  context,         \* index.ts:73
  currentTimeout,  \* index.ts:61, 0 is undefined
  pendingTimers,   \* the runtime's timers that are set and have not fired
  timerSeq,        \* the last timer id the runtime handed out
  listening,       \* the abort listener of index.ts:101 is registered
  listenerPc,      \* the handleAbort() run started by the listener
  pollResult,      \* the value the hook in flight last returned
  settledBy,       \* which step produced the result
  result,          \* what the returned promise settled with
  unhandled,       \* rejections nobody handles (index.ts:102-104)
  fetchArgs,       \* the arguments of each transport call
  hist,            \* the events so far, in order
  other,           \* a second invocation on the same entry point, with its own signal
  config,          \* index.ts:34, the configuration the entry point captured
  earlier          \* the polling block of an earlier invocation on the entry point

vars == << parentConfig, defaultConfig, input, init, signal, pc, mergedConfig, requestInput,
           context, currentTimeout, pendingTimers, timerSeq, listening,
           listenerPc, pollResult, settledBy, result, unhandled, fetchArgs, hist, other,
           config, earlier >>

(***************************************************************************)
(* Bounds of the model.                                                    *)
(***************************************************************************)
\* onPolling attempts one invocation may make before it has to stop returning falsy
MaxAttempts == 3

\* onPolling attempts of the second of two concurrent invocations
MaxOtherAttempts == 2

(***************************************************************************)
(* JavaScript values.  Every value is a record of the same shape so that   *)
(* any two can be compared: t is the type, id tells values of one type     *)
(* apart, the other fields are those of a Response.                        *)
(***************************************************************************)
JsVal(t, id) == [t |-> t, id |-> id, status |-> 0, ctype |-> "", body |-> ""]

Undefined == JsVal("undefined", "")

\* a Response the transport or a hook made; its body is opaque here
ResponseObj(id) == [t |-> "Response", id |-> id, status |-> 200, ctype |-> "", body |-> id]

ErrorObj(name) == JsVal("Error", name)

\* index.ts:56-58 and 142-144: new Error('The user aborted a request.'), name 'AbortError'
AbortError == [t |-> "Error", id |-> "AbortError", status |-> 0, ctype |-> "",
               body |-> "The user aborted a request."]

\* the falsy values a hook may return
FalsyValues == { Undefined, JsVal("number", "0") }

\* truthy values that are not a Response
PlainValues == { JsVal("object", "{status:completed}"), JsVal("string", "done") }

\* Response objects a hook may return: the initial reply itself, or another one
HookResponses == { ResponseObj("init"), ResponseObj("result") }

HookValues == FalsyValues \cup PlainValues \cup HookResponses

\* if (v)
Truthy(v) == v \notin { Undefined, JsVal("null", ""), JsVal("number", "0"),
                        JsVal("boolean", "false"), JsVal("string", ""), JsVal("number", "NaN") }

\* v instanceof Response
InstanceOfResponse(v) == v.t = "Response"

\* JSON.stringify on the plain values of the model: the JSON text of each
JSONstringify(v) ==
  CASE v = JsVal("object", "{status:completed}") -> "{\"status\":\"completed\"}"
    [] v = JsVal("string", "done")               -> "\"done\""
    [] v = JsVal("number", "0")                  -> "0"
    [] OTHER                                       -> "null"

\* Response.json() on a body: the value the JSON text denotes
JSONparse(s) ==
  CASE s = "{\"status\":\"completed\"}" -> JsVal("object", "{status:completed}")
    [] s = "\"done\""                    -> JsVal("string", "done")
    [] s = "0"                           -> JsVal("number", "0")
    [] OTHER                             -> JsVal("null", "")

(***************************************************************************)
(* Objects with string keys: a function on the keys that are set.          *)
(***************************************************************************)
EmptyObj == [k \in {} |-> ""]

\* { ...a, ...b } and Object.assign(a, b): every key of b overrides a's
Spread(a, b) == [k \in DOMAIN a \cup DOMAIN b |-> IF k \in DOMAIN b THEN b[k] ELSE a[k]]

\* delete obj[key]
Delete(obj, key) == [k \in DOMAIN obj \ {key} |-> obj[k]]

Has(obj, key) == key \in DOMAIN obj

HookKeys == { "onRequest", "onInitRespond", "onPolling", "onAbort" }

\* a PollingConfig (index.ts:16-22) that sets the hooks hs, each named owner,
\* and the interval ms when ms is not 0
Config(hs, ms, owner) ==
  [k \in hs \cup (IF ms = 0 THEN {} ELSE {"interval"}) |->
     IF k = "interval" THEN ms ELSE owner]

\* the default configurations given to createPollingFetch
DefaultConfigs ==
  { EmptyObj,
    Config({"onPolling", "onAbort"}, 500, "factory"),
    Config({"onRequest", "onInitRespond"}, 0, "factory") }

\* the defaults of the entry point on which create is called: those of the
\* exported PollingFetch (index.ts:185), or some of its own
ParentConfigs == { EmptyObj, Config({"onInitRespond"}, 900, "parent") }

\* the polling blocks a call may carry
PollingBlocks == { Config(hs, ms, "call") : hs \in SUBSET HookKeys, ms \in {0, 100} }

\* the options of a call: none at all, or a method with or without a signal
\* and with or without a polling block
InitOptions ==
  { EmptyObj }
  \cup { [k \in {"method"} \cup sg |-> IF k = "method" THEN "POST" ELSE "callerSignal"] :
           sg \in SUBSET {"signal"} }
  \cup { [k \in {"method", "polling"} \cup sg |->
            CASE k = "method" -> "POST" [] k = "signal" -> "callerSignal" [] OTHER -> pb] :
           sg \in SUBSET {"signal"}, pb \in PollingBlocks }

\* what onRequest may return: nothing, or a partial descriptor
OnRequestReturns == { EmptyObj, [method |-> "PUT"], [input |-> "/v2"] }

\* the name under which the log records what onRequest returned
DescriptorId(r) ==
  IF r = EmptyObj THEN "{}"
  ELSE IF Has(r, "method") THEN "{method}"
  ELSE "{input}"

\* a factory that drops the configuration it is given
createPollingFetch_DropsConfig(dc) == [interval |-> 2000]

\* index.ts:33-37
createPollingFetch(dc) == Spread([interval |-> 2000], dc)

\* a create that builds on the defaults of the entry point it is called on
create_MergesParent(pc0, dc) == Spread(createPollingFetch(pc0), dc)

\* index.ts:180: the create of an entry point whose own defaults are pc0 is
\* createPollingFetch itself
create(pc0, dc) == createPollingFetch(dc)

Ev(e, v, n) == [e |-> e, v |-> v, n |-> n]

\* index.ts:73-78; initResponse and pollingResponse are set at 111-112
NewContext == [initResponse |-> Undefined, pollingResponse |-> Undefined, retryCount |-> 0]

\* a second invocation that has not been made: its signal, its position, whether
\* its context holds the initial reply (index.ts:111), its retryCount (line 77),
\* its currentTimeout (line 61), the calls of its onAbort, and its outcome
\* no earlier invocation carried a polling block that is remembered
NoBlock == [none |-> TRUE]

OtherIdle ==
  [signal |-> "active", pc |-> "idle", replied |-> FALSE, retryCount |-> 0,
   currentTimeout |-> 0, onAbortCalls |-> 0, outcome |-> "none"]

Init ==
  /\ other = OtherIdle
  /\ parentConfig \in ParentConfigs
  /\ defaultConfig \in (IF parentConfig = EmptyObj THEN DefaultConfigs ELSE { EmptyObj })
  /\ config = create(parentConfig, defaultConfig)
  /\ earlier = NoBlock
  /\ input = "/test"
  /\ init \in InitOptions
  /\ signal \in (IF Has(init, "signal") THEN {"active", "aborted"} ELSE {"none"})
  /\ pc = "start"
  /\ mergedConfig = EmptyObj
  /\ requestInput = EmptyObj
  /\ context = NewContext
  /\ currentTimeout = 0
  /\ pendingTimers = {}
  /\ timerSeq = 0
  /\ listening = FALSE
  /\ listenerPc = "idle"
  /\ pollResult = Undefined
  /\ settledBy = "none"
  /\ result = Undefined
  /\ unhandled = 0
  /\ fetchArgs = << >>
  /\ hist = << >>

(***************************************************************************)
(* The environment's outcomes.                                             *)
(***************************************************************************)
\* the reply of the transport to the initial request
TransportReply == ResponseObj("init")

\* what the transport may fail with: a network failure, or its own abort
\* failure when the signal it was given is aborted
TransportFailures(ri) ==
  { ErrorObj("TypeError") }
  \cup (IF Has(ri, "signal") /\ signal = "aborted" THEN { ErrorObj("DOMException") } ELSE {})

HookError(hook) == ErrorObj(hook)

(***************************************************************************)
(* Helpers of pollingFetch.                                                *)
(***************************************************************************)
\* index.ts:80-85: the timer state after cleanup()
\* a cleanup that clears the timer and keeps its id
cleanup_KeepsTimerId(ct, pend) ==
  IF ct # 0
    THEN [currentTimeout |-> ct, pendingTimers |-> pend \ {ct}, cleared |-> TRUE]
    ELSE [currentTimeout |-> ct, pendingTimers |-> pend, cleared |-> FALSE]

\* a cleanup that releases every timer of the runtime, not only its own
cleanup_ClearsEveryTimer(ct, pend) ==
  IF ct # 0
    THEN [currentTimeout |-> 0, pendingTimers |-> {}, cleared |-> TRUE]
    ELSE [currentTimeout |-> ct, pendingTimers |-> pend, cleared |-> FALSE]

cleanup(ct, pend) ==
  IF ct # 0
    THEN [currentTimeout |-> 0, pendingTimers |-> pend \ {ct}, cleared |-> TRUE]
    ELSE [currentTimeout |-> ct, pendingTimers |-> pend, cleared |-> FALSE]

\* the history after cleanup(): clearTimeout is called when a timer id is held
cleanupHist(h, ct) == IF ct # 0 THEN Append(h, Ev("clearTimeout", "", ct)) ELSE h

\* index.ts:117-126: the final reply for a truthy result v of onInitRespond
WrapInitResult(v) ==
  IF InstanceOfResponse(v)
    THEN v
    ELSE [t |-> "Response", id |-> "wrapped", status |-> 200,
          ctype |-> "application/json", body |-> JSONstringify(v)]

\* a wrapping that forgets the content type
WrapPollingResult_NoContentType(v) ==
  IF InstanceOfResponse(v)
    THEN v
    ELSE [t |-> "Response", id |-> "wrapped", status |-> 200,
          ctype |-> "", body |-> JSONstringify(v)]

\* index.ts:149-162: the final reply for a truthy result v of onPolling
WrapPollingResult(v) ==
  IF InstanceOfResponse(v)
    THEN v
    ELSE [t |-> "Response", id |-> "wrapped", status |-> 200,
          ctype |-> "application/json", body |-> JSONstringify(v)]

\* a pass-through that loses the caller's signal
standardInit_DropsSignal(i) == Delete(Delete(Spread(EmptyObj, i), "polling"), "signal")

\* index.ts:45-46: the options handed to the transport without a polling block
standardInit(i) == Delete(Spread(EmptyObj, i), "polling")

\* an entry that does not look at the signal
PreCheck_Skipped == FALSE

\* index.ts:55: init.signal?.aborted at entry
PreCheck == signal = "aborted"

\* an interception that only accepts a Response
InitIntercepts_OnlyResponse(v) == InstanceOfResponse(v)

\* index.ts:117: if (initResult)
InitIntercepts(v) == Truthy(v)

\* a completion test that only looks for undefined
PollingCompletes_NotUndefined(v) == v # Undefined

\* index.ts:149: if (pollingResult)
PollingCompletes(v) == Truthy(v)

\* a handleAbort that does not ask whether the initial reply exists
OnAbortEligible_NoReplyCheck(ctx) == Has(mergedConfig, "onAbort")

\* index.ts:90: mergedConfig.onAbort && context.initResponse
OnAbortEligible(ctx) == Has(mergedConfig, "onAbort") /\ Truthy(ctx.initResponse)

\* the promise settles: kind is "resolved" or "rejected", by names the step.
\* index.ts:175-177: inside the try, cleanup() runs first (viaFinally)
Settle(kind, by, value, h, ctx, ct, pend, viaFinally) ==
  LET c  == IF viaFinally THEN cleanup(ct, pend)
            ELSE [currentTimeout |-> ct, pendingTimers |-> pend, cleared |-> FALSE]
      h1 == IF viaFinally THEN cleanupHist(h, ct) ELSE h
  IN /\ pc' = kind
     /\ settledBy' = by
     /\ result' = value
     /\ context' = ctx
     /\ currentTimeout' = c.currentTimeout
     /\ pendingTimers' = c.pendingTimers
     /\ hist' = Append(h1, Ev(kind, value.id, 0))

\* a loop that does not look at the signal before an attempt
LoopTop_NoAbortCheck(h, ctx, ct, pend) ==
  /\ pc' = "inOnPolling"
  /\ context' = ctx
  /\ currentTimeout' = ct
  /\ pendingTimers' = pend
  /\ hist' = Append(h, Ev("onPolling.call", mergedConfig.onPolling, ctx.retryCount))
  /\ UNCHANGED << settledBy, result >>

\* a loop that fails with AbortError as soon as it sees the aborted signal
LoopTop_RejectsAtOnce(h, ctx, ct, pend) ==
  IF signal = "aborted"
    THEN Settle("rejected", "abort", AbortError, h, ctx, ct, pend, TRUE)
    ELSE /\ pc' = "inOnPolling"
         /\ context' = ctx
         /\ currentTimeout' = ct
         /\ pendingTimers' = pend
         /\ hist' = Append(h, Ev("onPolling.call", mergedConfig.onPolling, ctx.retryCount))
         /\ UNCHANGED << settledBy, result >>

\* index.ts:139-148: the top of a loop iteration
LoopTop(h, ctx, ct, pend) ==
  IF signal = "aborted"
    THEN LET c  == cleanup(ct, pend)
             h1 == cleanupHist(h, ct)
         IN IF OnAbortEligible(ctx)
              THEN /\ pc' = "inOnAbort"
                   /\ context' = ctx
                   /\ currentTimeout' = c.currentTimeout
                   /\ pendingTimers' = c.pendingTimers
                   /\ hist' = Append(h1, Ev("onAbort.call", "loop", ctx.retryCount))
                   /\ UNCHANGED << settledBy, result >>
              ELSE Settle("rejected", "abort", AbortError, h1, ctx,
                          c.currentTimeout, c.pendingTimers, TRUE)
    ELSE /\ pc' = "inOnPolling"
         /\ context' = ctx
         /\ currentTimeout' = ct
         /\ pendingTimers' = pend
         /\ hist' = Append(h, Ev("onPolling.call", mergedConfig.onPolling, ctx.retryCount))
         /\ UNCHANGED << settledBy, result >>

\* a shortcut that returns a re-serialized copy of the initial reply
AfterInit_CopiesReply(h, ctx, ct, pend) ==
  IF ~Has(mergedConfig, "onPolling")
    THEN Settle("resolved", "initResponse",
                [ctx.initResponse EXCEPT !.id = "copy", !.ctype = "application/json"],
                h, ctx, ct, pend, TRUE)
    ELSE LoopTop(h, ctx, ct, pend)

\* a shortcut that looks at the signal before it returns the initial reply
AfterInit_ChecksAbort(h, ctx, ct, pend) ==
  IF signal = "aborted"
    THEN Settle("rejected", "abort", AbortError, h, ctx, ct, pend, TRUE)
    ELSE IF ~Has(mergedConfig, "onPolling")
      THEN Settle("resolved", "initResponse", ctx.initResponse, h, ctx, ct, pend, TRUE)
      ELSE LoopTop(h, ctx, ct, pend)

\* index.ts:135-139: after the initial reply was not intercepted
AfterInit(h, ctx, ct, pend) ==
  IF ~Has(mergedConfig, "onPolling")
    THEN Settle("resolved", "initResponse", ctx.initResponse, h, ctx, ct, pend, TRUE)
    ELSE LoopTop(h, ctx, ct, pend)

\* index.ts:73-78 and 99-110: the context, the abort listener, the transport call
StartFetch(ri, h) ==
  /\ requestInput' = ri
  /\ context' = NewContext
  /\ listening' = Has(init, "signal")
  /\ fetchArgs' = Append(fetchArgs, [input |-> ri.input, init |-> Delete(ri, "input")])
  /\ pc' = "inFetch"
  /\ hist' = Append(h, Ev("fetch.call", ri.input, 0))

(***************************************************************************)
(* The steps of one invocation.                                            *)
(***************************************************************************)
\* a test that lets a call without a polling block poll on the factory's hooks
IsStandardFetch_UnlessDefaults(i) ==
  ~Has(i, "polling") /\ DOMAIN defaultConfig \cap HookKeys = {}

\* index.ts:44: the call carries no polling block
IsStandardFetch(i) == ~Has(i, "polling")

\* index.ts:52: ...init.polling, which spreads nothing when there is none
PollingBlock(i) == IF Has(i, "polling") THEN i.polling ELSE EmptyObj

\* a merge that assigns the call's polling block onto the captured configuration
MergeConfig_AssignsInPlace(cfg, block) ==
  [mergedConfig |-> Spread(cfg, block), config |-> Spread(cfg, block)]

\* index.ts:50-53: the call's configuration is a new object; the captured one
\* is only read
MergeConfig(cfg, block) ==
  [mergedConfig |-> Spread(cfg, block), config |-> cfg]

\* index.ts:39-71 and on to the first await: the call itself
Call ==
  /\ pc = "start"
  /\ IF IsStandardFetch(init)
       THEN \* index.ts:44-48
            /\ fetchArgs' = Append(fetchArgs,
                                   [input |-> input, init |-> standardInit(init)])
            /\ pc' = "passthrough"
            /\ hist' = Append(hist, Ev("fetch.call", input, 0))
            /\ UNCHANGED << config, mergedConfig, requestInput, context, currentTimeout,
                            pendingTimers, listening, settledBy, result >>
       ELSE LET m      == MergeConfig(config, PollingBlock(init))
                merged == m.mergedConfig
                ri     == Delete(Spread([input |-> input], init), "polling")
            IN /\ mergedConfig' = merged
               /\ config' = m.config
               /\ IF PreCheck
                    THEN \* index.ts:55-59
                         /\ Settle("rejected", "precheck", AbortError, hist, context,
                                   currentTimeout, pendingTimers, FALSE)
                         /\ UNCHANGED << requestInput, listening, fetchArgs >>
                    ELSE IF Has(merged, "onRequest")
                      THEN \* index.ts:65-67
                           /\ requestInput' = ri
                           /\ pc' = "inOnRequest"
                           /\ hist' = Append(hist, Ev("onRequest.call", merged.onRequest, 0))
                           /\ UNCHANGED << context, currentTimeout, pendingTimers, listening,
                                           settledBy, result, fetchArgs >>
                      ELSE /\ StartFetch(ri, hist)
                           /\ UNCHANGED << currentTimeout, pendingTimers, settledBy, result >>
  /\ UNCHANGED << earlier, other, parentConfig, defaultConfig, input, init, signal, timerSeq,
                  listenerPc, pollResult, unhandled >>

\* index.ts:47: the transport settles a call made without a polling block
PassthroughReturn ==
  /\ pc = "passthrough"
  /\ \/ Settle("resolved", "transport", TransportReply,
               Append(hist, Ev("fetch.return", TransportReply.id, 0)),
               context, currentTimeout, pendingTimers, FALSE)
     \/ \E err \in TransportFailures(init) :
          Settle("rejected", "transport", err, Append(hist, Ev("fetch.throw", err.id, 0)),
                 context, currentTimeout, pendingTimers, FALSE)
  /\ UNCHANGED << config, earlier, other, parentConfig, defaultConfig, input, init, signal, mergedConfig, requestInput, timerSeq,
                  listening, listenerPc, pollResult, unhandled, fetchArgs >>

\* index.ts:67: onRequest returns r, which is assigned over the descriptor
\* a call that sends the pending descriptor as it was, whatever onRequest returned
OnRequestReturn_IgnoresReturn ==
  /\ pc = "inOnRequest"
  /\ \E r \in OnRequestReturns :
       StartFetch(requestInput, Append(hist, Ev("onRequest.return", DescriptorId(r), 0)))
  /\ UNCHANGED << config, earlier, other, parentConfig, defaultConfig, input, init, signal, mergedConfig, currentTimeout,
                  pendingTimers, timerSeq, listenerPc, pollResult, settledBy, result, unhandled >>

OnRequestReturn ==
  /\ pc = "inOnRequest"
  /\ \E r \in OnRequestReturns :
       StartFetch(Spread(requestInput, r),
                  Append(hist, Ev("onRequest.return", DescriptorId(r), 0)))
  /\ UNCHANGED << config, earlier, other, parentConfig, defaultConfig, input, init, signal, mergedConfig, currentTimeout,
                  pendingTimers, timerSeq, listenerPc, pollResult, settledBy, result, unhandled >>

\* a catch that swallows onRequest's failure and goes on with the request
OnRequestThrow_Swallowed ==
  /\ pc = "inOnRequest"
  /\ StartFetch(requestInput, Append(hist, Ev("onRequest.throw", "", 0)))
  /\ UNCHANGED << config, earlier, other, parentConfig, defaultConfig, input, init, signal, mergedConfig, currentTimeout,
                  pendingTimers, timerSeq, listenerPc, pollResult, settledBy, result, unhandled >>

\* index.ts:68-70: onRequest fails, before the try of line 99
OnRequestThrow ==
  /\ pc = "inOnRequest"
  /\ Settle("rejected", "onRequest", HookError("onRequest"),
            Append(hist, Ev("onRequest.throw", "", 0)),
            context, currentTimeout, pendingTimers, FALSE)
  /\ UNCHANGED << config, earlier, other, parentConfig, defaultConfig, input, init, signal, mergedConfig, requestInput, timerSeq,
                  listening, listenerPc, pollResult, unhandled, fetchArgs >>

\* index.ts:110-116 and 135-148: the transport returns the initial reply
FetchReturn ==
  /\ pc = "inFetch"
  /\ LET ctx == [context EXCEPT !.initResponse = TransportReply,
                                !.pollingResponse = TransportReply]
         h   == Append(hist, Ev("fetch.return", TransportReply.id, 0))
     IN IF Has(mergedConfig, "onInitRespond")
          THEN /\ pc' = "inOnInitRespond"
               /\ context' = ctx
               /\ hist' = Append(h, Ev("onInitRespond.call", mergedConfig.onInitRespond,
                                       ctx.retryCount))
               /\ UNCHANGED << currentTimeout, pendingTimers, settledBy, result >>
          ELSE AfterInit(h, ctx, currentTimeout, pendingTimers)
  /\ UNCHANGED << config, earlier, other, parentConfig, defaultConfig, input, init, signal, mergedConfig, requestInput, timerSeq,
                  listening, listenerPc, pollResult, unhandled, fetchArgs >>

\* index.ts:131-133 and 173-177: the initial transport call fails
FetchThrow ==
  /\ pc = "inFetch"
  /\ \E err \in TransportFailures(requestInput) :
       Settle("rejected", "transport", err, Append(hist, Ev("fetch.throw", err.id, 0)),
              context, currentTimeout, pendingTimers, TRUE)
  /\ UNCHANGED << config, earlier, other, parentConfig, defaultConfig, input, init, signal, mergedConfig, requestInput, timerSeq,
                  listening, listenerPc, pollResult, unhandled, fetchArgs >>

\* index.ts:116-126 and 135-148: onInitRespond returns v
OnInitRespondReturn ==
  /\ pc = "inOnInitRespond"
  /\ \E v \in HookValues :
       LET h == Append(hist, Ev("onInitRespond.return", v.id, 0))
       IN /\ pollResult' = v
          /\ IF InitIntercepts(v)
               THEN Settle("resolved", "onInitRespond", WrapInitResult(v), h, context,
                           currentTimeout, pendingTimers, TRUE)
               ELSE AfterInit(h, context, currentTimeout, pendingTimers)
  /\ UNCHANGED << config, earlier, other, parentConfig, defaultConfig, input, init, signal, mergedConfig, requestInput, timerSeq,
                  listening, listenerPc, unhandled, fetchArgs >>

\* index.ts:127-129: onInitRespond fails
OnInitRespondThrow ==
  /\ pc = "inOnInitRespond"
  /\ Settle("rejected", "onInitRespond", HookError("onInitRespond"),
            Append(hist, Ev("onInitRespond.throw", "", 0)),
            context, currentTimeout, pendingTimers, TRUE)
  /\ UNCHANGED << config, earlier, other, parentConfig, defaultConfig, input, init, signal, mergedConfig, requestInput, timerSeq,
                  listening, listenerPc, pollResult, unhandled, fetchArgs >>

\* index.ts:148-171: onPolling returns v; a falsy v starts the inter-poll wait
\* a loop that starts the next attempt at once, without the wait between attempts
OnPollingReturn_NoWait ==
  /\ pc = "inOnPolling"
  /\ \E v \in HookValues :
       LET h == Append(hist, Ev("onPolling.return", v.id, 0))
       IN /\ PollingCompletes(v) \/ context.retryCount + 1 < MaxAttempts
          /\ pollResult' = v
          /\ IF PollingCompletes(v)
               THEN Settle("resolved", "onPolling", WrapPollingResult(v), h,
                           [context EXCEPT !.pollingResponse = WrapPollingResult(v)],
                           currentTimeout, pendingTimers, TRUE)
               ELSE /\ context' = [context EXCEPT !.retryCount = @ + 1]
                    /\ hist' = Append(h, Ev("onPolling.call", mergedConfig.onPolling,
                                            context.retryCount + 1))
                    /\ UNCHANGED << pc, currentTimeout, pendingTimers, settledBy, result >>
  /\ UNCHANGED << config, earlier, other, parentConfig, defaultConfig, input, init, signal, mergedConfig, requestInput,
                  timerSeq, listening, listenerPc, unhandled, fetchArgs >>

\* a loop that counts every attempt, the one that completes the polling too
OnPollingReturn_CountsEveryAttempt ==
  /\ pc = "inOnPolling"
  /\ \E v \in HookValues :
       LET h == Append(hist, Ev("onPolling.return", v.id, 0))
       IN /\ PollingCompletes(v) \/ context.retryCount + 1 < MaxAttempts
          /\ pollResult' = v
          /\ IF PollingCompletes(v)
               THEN /\ Settle("resolved", "onPolling", WrapPollingResult(v), h,
                              [context EXCEPT !.pollingResponse = WrapPollingResult(v),
                                              !.retryCount = @ + 1],
                              currentTimeout, pendingTimers, TRUE)
                    /\ UNCHANGED timerSeq
               ELSE /\ context' = [context EXCEPT !.retryCount = @ + 1]
                    /\ timerSeq' = timerSeq + 1
                    /\ currentTimeout' = timerSeq + 1
                    /\ pendingTimers' = pendingTimers \cup {timerSeq + 1}
                    /\ pc' = "waiting"
                    /\ hist' = Append(h, Ev("setTimeout", "", mergedConfig.interval))
                    /\ UNCHANGED << settledBy, result >>
  /\ UNCHANGED << config, earlier, other, parentConfig, defaultConfig, input, init, signal, mergedConfig, requestInput,
                  listening, listenerPc, unhandled, fetchArgs >>

OnPollingReturn ==
  /\ pc = "inOnPolling"
  /\ \E v \in HookValues :
       LET h == Append(hist, Ev("onPolling.return", v.id, 0))
       IN /\ PollingCompletes(v) \/ context.retryCount + 1 < MaxAttempts
          /\ pollResult' = v
          /\ IF PollingCompletes(v)
               THEN /\ Settle("resolved", "onPolling", WrapPollingResult(v), h,
                              [context EXCEPT !.pollingResponse = WrapPollingResult(v)],
                              currentTimeout, pendingTimers, TRUE)
                    /\ UNCHANGED timerSeq
               ELSE /\ context' = [context EXCEPT !.retryCount = @ + 1]
                    /\ timerSeq' = timerSeq + 1
                    /\ currentTimeout' = timerSeq + 1
                    /\ pendingTimers' = pendingTimers \cup {timerSeq + 1}
                    /\ pc' = "waiting"
                    /\ hist' = Append(h, Ev("setTimeout", "", mergedConfig.interval))
                    /\ UNCHANGED << settledBy, result >>
  /\ UNCHANGED << config, earlier, other, parentConfig, defaultConfig, input, init, signal, mergedConfig, requestInput,
                  listening, listenerPc, unhandled, fetchArgs >>

\* a loop that treats a failed attempt like a falsy result and tries again
OnPollingThrow_Retries ==
  /\ pc = "inOnPolling"
  /\ context.retryCount + 1 < MaxAttempts
  /\ context' = [context EXCEPT !.retryCount = @ + 1]
  /\ timerSeq' = timerSeq + 1
  /\ currentTimeout' = timerSeq + 1
  /\ pendingTimers' = pendingTimers \cup {timerSeq + 1}
  /\ pc' = "waiting"
  /\ hist' = Append(Append(hist, Ev("onPolling.throw", "", 0)),
                    Ev("setTimeout", "", mergedConfig.interval))
  /\ UNCHANGED << config, earlier, other, parentConfig, defaultConfig, input, init, signal, mergedConfig, requestInput,
                  listening, listenerPc, pollResult, settledBy, result, unhandled, fetchArgs >>

\* index.ts:163-165: onPolling fails
OnPollingThrow ==
  /\ pc = "inOnPolling"
  /\ Settle("rejected", "onPolling", HookError("onPolling"),
            Append(hist, Ev("onPolling.throw", "", 0)),
            context, currentTimeout, pendingTimers, TRUE)
  /\ UNCHANGED << config, earlier, other, parentConfig, defaultConfig, input, init, signal, mergedConfig, requestInput, timerSeq,
                  listening, listenerPc, pollResult, unhandled, fetchArgs >>

\* index.ts:169-171 and 139-148: the wait's timer fires and the loop goes on.
\* Only a timer that is still set can fire.
\* a wait built on a repeating timer, which stays set after it has fired
TimerFire_Repeating ==
  /\ pc = "waiting"
  /\ currentTimeout \in pendingTimers
  /\ LoopTop(Append(hist, Ev("timer.fire", "", currentTimeout)), context,
             currentTimeout, pendingTimers)
  /\ UNCHANGED << config, earlier, other, parentConfig, defaultConfig, input, init, signal, mergedConfig, requestInput, timerSeq,
                  listening, listenerPc, pollResult, unhandled, fetchArgs >>

TimerFire ==
  /\ pc = "waiting"
  /\ currentTimeout \in pendingTimers
  /\ LoopTop(Append(hist, Ev("timer.fire", "", currentTimeout)), context,
             currentTimeout, pendingTimers \ {currentTimeout})
  /\ UNCHANGED << config, earlier, other, parentConfig, defaultConfig, input, init, signal, mergedConfig, requestInput, timerSeq,
                  listening, listenerPc, pollResult, unhandled, fetchArgs >>

\* index.ts:141-144: onAbort, called from the loop, returns; AbortError is thrown
OnAbortReturn ==
  /\ pc = "inOnAbort"
  /\ Settle("rejected", "abort", AbortError, Append(hist, Ev("onAbort.return", "loop", 0)),
            context, currentTimeout, pendingTimers, TRUE)
  /\ UNCHANGED << config, earlier, other, parentConfig, defaultConfig, input, init, signal, mergedConfig, requestInput, timerSeq,
                  listening, listenerPc, pollResult, unhandled, fetchArgs >>

\* index.ts:92-95 and 141: onAbort, called from the loop, fails
OnAbortThrow ==
  /\ pc = "inOnAbort"
  /\ Settle("rejected", "onAbort", HookError("onAbort"),
            Append(hist, Ev("onAbort.throw", "loop", 0)),
            context, currentTimeout, pendingTimers, TRUE)
  /\ UNCHANGED << config, earlier, other, parentConfig, defaultConfig, input, init, signal, mergedConfig, requestInput, timerSeq,
                  listening, listenerPc, pollResult, unhandled, fetchArgs >>

\* The caller aborts its signal.  index.ts:101-105 and 87-97: a registered
\* listener runs handleAbort() at once, whatever the invocation is doing
Abort ==
  /\ signal = "active"
  /\ signal' = "aborted"
  /\ LET h == Append(hist, Ev("abort", pc, 0))
         c == cleanup(currentTimeout, pendingTimers)
     IN IF listening
          THEN /\ currentTimeout' = c.currentTimeout
               /\ pendingTimers' = c.pendingTimers
               /\ IF OnAbortEligible(context)
                    THEN /\ listenerPc' = "inOnAbort"
                         /\ hist' = Append(cleanupHist(h, currentTimeout),
                                           Ev("onAbort.call", "listener", context.retryCount))
                    ELSE /\ listenerPc' = "done"
                         /\ hist' = cleanupHist(h, currentTimeout)
          ELSE /\ hist' = h
               /\ UNCHANGED << currentTimeout, pendingTimers, listenerPc >>
  /\ UNCHANGED << config, earlier, other, parentConfig, defaultConfig, input, init, pc, mergedConfig, requestInput, context,
                  timerSeq, listening, pollResult, settledBy, result, unhandled, fetchArgs >>

\* index.ts:92: onAbort, called from the listener, returns
ListenerOnAbortReturn ==
  /\ listenerPc = "inOnAbort"
  /\ listenerPc' = "done"
  /\ hist' = Append(hist, Ev("onAbort.return", "listener", 0))
  /\ UNCHANGED << config, earlier, other, parentConfig, defaultConfig, input, init, signal, pc, mergedConfig, requestInput, context,
                  currentTimeout, pendingTimers, timerSeq, listening, pollResult, settledBy,
                  result, unhandled, fetchArgs >>

\* index.ts:93-95 and 102-104: onAbort, called from the listener, fails; the
\* listener's catch rethrows, so the rejection reaches nobody
ListenerOnAbortThrow ==
  /\ listenerPc = "inOnAbort"
  /\ listenerPc' = "done"
  /\ unhandled' = unhandled + 1
  /\ hist' = Append(hist, Ev("onAbort.throw", "listener", 0))
  /\ UNCHANGED << config, earlier, other, parentConfig, defaultConfig, input, init, signal, pc, mergedConfig, requestInput, context,
                  currentTimeout, pendingTimers, timerSeq, listening, pollResult, settledBy,
                  result, fetchArgs >>

(***************************************************************************)
(* A second invocation of the same entry point, made with its own signal   *)
(* and with polling: {onPolling, onAbort}.  It runs the same code; what is *)
(* kept of it is what another invocation could touch or be touched by.     *)
(* The timers of both invocations are the runtime's: pendingTimers and     *)
(* timerSeq are shared.                                                    *)
(***************************************************************************)
\* index.ts:175-177: the second invocation settles, after cleanup()
OtherSettle(o, pend, kind, outcome) ==
  LET c == cleanup(o.currentTimeout, pend)
  IN /\ other' = [o EXCEPT !.pc = kind, !.outcome = outcome,
                           !.currentTimeout = c.currentTimeout]
     /\ pendingTimers' = c.pendingTimers

\* index.ts:139-148: the top of an iteration of the second invocation's loop
OtherLoopTop(o, pend) ==
  IF o.signal = "aborted"
    THEN LET c == cleanup(o.currentTimeout, pend)
         IN /\ other' = [o EXCEPT !.pc = "inOnAbort", !.onAbortCalls = @ + 1,
                                  !.currentTimeout = c.currentTimeout]
            /\ pendingTimers' = c.pendingTimers
    ELSE /\ other' = [o EXCEPT !.pc = "inOnPolling"]
         /\ pendingTimers' = pend

\* index.ts:39-110: the second call, up to its transport call
OtherCall ==
  /\ other.pc = "idle"
  /\ IF other.signal = "aborted"
       THEN other' = [other EXCEPT !.pc = "rejected", !.outcome = "AbortError"]
       ELSE other' = [other EXCEPT !.pc = "inFetch"]
  /\ UNCHANGED << config, earlier, parentConfig, defaultConfig, input, init, signal, pc, mergedConfig,
                  requestInput, context, currentTimeout, pendingTimers, timerSeq, listening,
                  listenerPc, pollResult, settledBy, result, unhandled, fetchArgs, hist >>

\* index.ts:110-112 and 139-148: its transport call returns or fails
OtherFetchSettles ==
  /\ other.pc = "inFetch"
  /\ \/ OtherLoopTop([other EXCEPT !.replied = TRUE], pendingTimers)
     \/ OtherSettle(other, pendingTimers, "rejected", "TypeError")
  /\ UNCHANGED << config, earlier, parentConfig, defaultConfig, input, init, signal, pc, mergedConfig,
                  requestInput, context, currentTimeout, timerSeq, listening,
                  listenerPc, pollResult, settledBy, result, unhandled, fetchArgs, hist >>

\* index.ts:148-171: its onPolling returns truthy, fails, or returns falsy
OtherPollingSettles ==
  /\ other.pc = "inOnPolling"
  /\ \/ OtherSettle(other, pendingTimers, "resolved", "reply") /\ UNCHANGED timerSeq
     \/ OtherSettle(other, pendingTimers, "rejected", "onPolling") /\ UNCHANGED timerSeq
     \/ /\ other.retryCount + 1 < MaxOtherAttempts
        /\ timerSeq' = timerSeq + 1
        /\ pendingTimers' = pendingTimers \cup { timerSeq + 1 }
        /\ other' = [other EXCEPT !.pc = "waiting", !.retryCount = @ + 1,
                                  !.currentTimeout = timerSeq + 1]
  /\ UNCHANGED << config, earlier, parentConfig, defaultConfig, input, init, signal, pc, mergedConfig,
                  requestInput, context, currentTimeout, listening,
                  listenerPc, pollResult, settledBy, result, unhandled, fetchArgs, hist >>

\* index.ts:169-171: its wait timer fires
OtherTimerFire ==
  /\ other.pc = "waiting"
  /\ other.currentTimeout \in pendingTimers
  /\ OtherLoopTop(other, pendingTimers \ { other.currentTimeout })
  /\ UNCHANGED << config, earlier, parentConfig, defaultConfig, input, init, signal, pc, mergedConfig,
                  requestInput, context, currentTimeout, timerSeq, listening,
                  listenerPc, pollResult, settledBy, result, unhandled, fetchArgs, hist >>

\* index.ts:141-144: its onAbort, called from the loop, returns or fails
OtherOnAbortSettles ==
  /\ other.pc = "inOnAbort"
  /\ \/ OtherSettle(other, pendingTimers, "rejected", "AbortError")
     \/ OtherSettle(other, pendingTimers, "rejected", "onAbort")
  /\ UNCHANGED << config, earlier, parentConfig, defaultConfig, input, init, signal, pc, mergedConfig,
                  requestInput, context, currentTimeout, timerSeq, listening,
                  listenerPc, pollResult, settledBy, result, unhandled, fetchArgs, hist >>

\* The second caller aborts its signal.  index.ts:87-106: its listener, once
\* registered at line 101, runs cleanup() and calls its onAbort when its
\* reply exists
OtherAbort ==
  /\ other.signal = "active"
  /\ LET o == [other EXCEPT !.signal = "aborted"]
         c == cleanup(other.currentTimeout, pendingTimers)
     IN IF other.pc = "idle"
          THEN other' = o /\ UNCHANGED pendingTimers
          ELSE /\ other' = [o EXCEPT !.currentTimeout = c.currentTimeout,
                                     !.onAbortCalls = IF other.replied THEN @ + 1 ELSE @]
               /\ pendingTimers' = c.pendingTimers
  /\ UNCHANGED << config, earlier, parentConfig, defaultConfig, input, init, signal, pc, mergedConfig,
                  requestInput, context, currentTimeout, timerSeq, listening,
                  listenerPc, pollResult, settledBy, result, unhandled, fetchArgs, hist >>

Next ==
  \/ Call
  \/ PassthroughReturn
  \/ OnRequestReturn
  \/ OnRequestThrow
  \/ FetchReturn
  \/ FetchThrow
  \/ OnInitRespondReturn
  \/ OnInitRespondThrow
  \/ OnPollingReturn
  \/ OnPollingThrow
  \/ TimerFire
  \/ OnAbortReturn
  \/ OnAbortThrow
  \/ Abort
  \/ ListenerOnAbortReturn
  \/ ListenerOnAbortThrow

Spec == Init /\ [][Next]_vars

(***************************************************************************)
(* Fairness: the event loop runs every continuation that is ready, a timer *)
(* that is set fires, and the transport and the hooks return.  The caller  *)
(* is never obliged to abort.                                              *)
(*                                                                         *)
(* An invocation whose wait timer was cleared by the listener's cleanup()  *)
(* (Abort with pc = "waiting") has no step left: TimerFire needs the timer *)
(* to be set, and nothing else resolves the promise of index.ts:169-171.   *)
(* That state is reached at any retry count, below MaxAttempts too.        *)
(***************************************************************************)
MainNext ==
  \/ Call
  \/ PassthroughReturn
  \/ OnRequestReturn
  \/ OnRequestThrow
  \/ FetchReturn
  \/ FetchThrow
  \/ OnInitRespondReturn
  \/ OnInitRespondThrow
  \/ OnPollingReturn
  \/ OnPollingThrow
  \/ TimerFire
  \/ OnAbortReturn
  \/ OnAbortThrow

ListenerNext == ListenerOnAbortReturn \/ ListenerOnAbortThrow

FairSpec == Spec /\ WF_vars(MainNext) /\ WF_vars(ListenerNext)

(***************************************************************************)
(* Two invocations running concurrently on one entry point, each with its  *)
(* own signal: the first made with every hook set or with no polling block *)
(* at all, the second with onPolling and onAbort.                          *)
(***************************************************************************)
PairInit ==
  /\ Init
  /\ parentConfig = EmptyObj
  /\ defaultConfig = EmptyObj
  /\ signal = "active"
  /\ Has(init, "polling") => (init.polling = Config(HookKeys, 100, "call"))

OtherNext ==
  \/ OtherCall
  \/ OtherFetchSettles
  \/ OtherPollingSettles
  \/ OtherTimerFire
  \/ OtherOnAbortSettles
  \/ OtherAbort

PairNext == Next \/ OtherNext

PairSpec == PairInit /\ [][PairNext]_vars

(***************************************************************************)
(* Invocations one after another on one entry point.  When an invocation   *)
(* has settled the caller makes the next one, with any options: what       *)
(* belongs to one invocation (index.ts:50-106) is created anew, what the   *)
(* entry point captured (index.ts:34-37) stays.  Timer ids are only names  *)
(* and are counted from 0 again.  The log remembers, in earlier, the last  *)
(* polling block among RememberedBlocks that an invocation carried.        *)
(***************************************************************************)
RememberedBlocks == { Config(HookKeys, 100, "call"), Config({"onRequest"}, 0, "call") }

\* the options of a later invocation: no polling block, an empty one, one that
\* sets onPolling alone, or one that sets everything
LaterOptions ==
  { i \in InitOptions :
      /\ Has(i, "signal")
      /\ Has(i, "polling") =>
           i.polling \in { EmptyObj, Config({"onPolling"}, 0, "call"),
                           Config(HookKeys, 100, "call") } }

Again ==
  /\ pc \in { "resolved", "rejected" }
  /\ earlier' = IF Has(init, "polling") /\ init.polling \in RememberedBlocks
                  THEN init.polling
                  ELSE earlier
  /\ init' \in LaterOptions
  /\ signal' \in { "active", "aborted" }
  /\ pc' = "start"
  /\ mergedConfig' = EmptyObj
  /\ requestInput' = EmptyObj
  /\ context' = NewContext
  /\ currentTimeout' = 0
  /\ pendingTimers' = {}
  /\ timerSeq' = 0
  /\ listening' = FALSE
  /\ listenerPc' = "idle"
  /\ pollResult' = Undefined
  /\ settledBy' = "none"
  /\ result' = Undefined
  /\ unhandled' = 0
  /\ fetchArgs' = << >>
  /\ hist' = << >>
  /\ UNCHANGED << config, other, parentConfig, defaultConfig, input >>

SeqNext == Next \/ Again

SeqSpec == Init /\ [][SeqNext]_vars

(***************************************************************************)
(* Reading the history.                                                    *)
(***************************************************************************)
Count(e) == Cardinality({ i \in 1..Len(hist) : hist[i].e = e })

Happened(e) == \E i \in 1..Len(hist) : hist[i].e = e

Resolved == pc = "resolved"

Rejected == pc = "rejected"

Settled == Resolved \/ Rejected

HookCalls == { "onRequest.call", "onInitRespond.call", "onPolling.call", "onAbort.call" }

NoHookCalled == \A i \in 1..Len(hist) : hist[i].e \notin HookCalls

NoTimerEver == Count("setTimeout") = 0 /\ pendingTimers = {} /\ timerSeq = 0

\* the signal was never aborted, neither before the call nor after it
NeverAborted == signal # "aborted"

\* the interval in effect, read off the inputs: the call's, else the factory's, else 2000
EffectiveInterval ==
  IF Has(init, "polling") /\ Has(init.polling, "interval") THEN init.polling.interval
  ELSE IF Has(defaultConfig, "interval") THEN defaultConfig.interval
  ELSE 2000

\* a hook of that name is in effect for a call with a polling block
Configured(hook) == Has(init, "polling") /\ (Has(init.polling, hook) \/ Has(defaultConfig, hook))

TruthyIds == { v.id : v \in PlainValues \cup HookResponses }

FalsyIds == { v.id : v \in FalsyValues }

\* the reply the value-wrapping rule asks for, for a truthy hook result v
IsReplyFor(r, v) ==
  IF v \in HookResponses
    THEN r = v
    ELSE /\ r.t = "Response"
         /\ r.id \notin { x.id : x \in HookResponses }
         /\ r.status = 200
         /\ r.ctype = "application/json"
         /\ JSONparse(r.body) = v

(***************************************************************************)
(* C1.  A call without a polling block is a pass-through: the transport is *)
(* called exactly once with the call's resource and options (the signal    *)
(* among them), no hook is invoked, no timer is set, and the call settles  *)
(* with exactly what the transport settled with.                           *)
(***************************************************************************)
C1_PassThrough ==
  ~Has(init, "polling") =>
    /\ NoHookCalled
    /\ NoTimerEver
    /\ pc = "start" => fetchArgs = << >>
    /\ pc # "start" => fetchArgs = << [input |-> input, init |-> init] >>
    /\ Happened("fetch.return") <=> Resolved
    /\ Happened("fetch.throw") <=> Rejected
    /\ Resolved => result = TransportReply
    /\ Rejected => \E i \in 1..Len(hist) :
                      hist[i].e = "fetch.throw" /\ result = ErrorObj(hist[i].v)

\* a pass-through call with a signal, on an entry point whose defaults set hooks, has resolved
C1_Witness ==
  /\ ~Has(init, "polling")
  /\ Has(init, "signal")
  /\ Has(defaultConfig, "onPolling")
  /\ Resolved

(***************************************************************************)
(* C2.  With the signal never aborted, the polling events of an invocation *)
(* alternate: attempt, falsy result, wait of the effective interval, timer *)
(* elapse, next attempt.  When attempt k is the first to return a truthy   *)
(* value, there were exactly k attempts and k-1 waits, each wait between   *)
(* two consecutive attempts, and the invocation is resolved with the reply *)
(* derived from the k-th result.                                           *)
(***************************************************************************)
IsPollEvent(ev) == ev.e \in { "onPolling.call", "onPolling.return", "setTimeout", "timer.fire" }

PollTrace == SelectSeq(hist, IsPollEvent)

PollPattern(j) ==
  CASE j % 4 = 1 -> "onPolling.call"
    [] j % 4 = 2 -> "onPolling.return"
    [] j % 4 = 3 -> "setTimeout"
    [] OTHER     -> "timer.fire"

C2_PollUntilTruthy ==
  NeverAborted =>
    LET pt == PollTrace
        k  == Count("onPolling.call")
        n  == Len(pt)
    IN /\ \A j \in 1..n : pt[j].e = PollPattern(j)
       /\ \A j \in 1..n : pt[j].e = "setTimeout" => pt[j].n = EffectiveInterval
       /\ \A j \in 1..n : pt[j].e = "onPolling.return" =>
                            (pt[j].v \in TruthyIds <=> j = n)
       /\ (n > 0 /\ pt[n].e = "onPolling.return") =>
            /\ n = 4 * (k - 1) + 2
            /\ Count("setTimeout") = k - 1
            /\ Count("timer.fire") = k - 1
            /\ Resolved
            /\ pollResult.id = pt[n].v
            /\ IsReplyFor(result, pollResult)

\* the third attempt returned a plain value after two waits of the call's own interval
C2_Witness ==
  /\ NeverAborted
  /\ Resolved
  /\ settledBy = "onPolling"
  /\ Count("onPolling.call") = 3
  /\ Count("timer.fire") = 2
  /\ pollResult \in PlainValues
  /\ Has(defaultConfig, "interval")
  /\ Has(init.polling, "interval")

(***************************************************************************)
(* C3.  When the signal is aborted while the invocation is suspended in    *)
(* the inter-poll wait, the invocation rejects with an AbortError-kind     *)
(* failure (or with onAbort's failure, which takes its place): it does not *)
(* stay pending, does not resolve and makes no further onPolling attempt.  *)
(***************************************************************************)
AbortedInWait == \E i \in 1..Len(hist) : hist[i].e = "abort" /\ hist[i].v = "waiting"

\* no onPolling attempt starts after the abort that arrived during the wait
NoAttemptAfterAbortInWait ==
  \A i, j \in 1..Len(hist) :
     (hist[i].e = "abort" /\ hist[i].v = "waiting" /\ hist[j].e = "onPolling.call") => j < i

C3_AbortInWaitRejects ==
  /\ [](AbortedInWait => ~Resolved /\ NoAttemptAfterAbortInWait)
  /\ (AbortedInWait ~> (Rejected /\ result \in { AbortError, HookError("onAbort") }))

(***************************************************************************)
(* C4.  With onAbort configured, an abort that arrives once the initial    *)
(* reply exists (during onInitRespond, during an onPolling attempt or      *)
(* during the inter-poll wait) has onAbort invoked exactly once over the   *)
(* whole invocation, never twice.                                          *)
(***************************************************************************)
AbortedAfterInitialReply ==
  \E i \in 1..Len(hist) :
     hist[i].e = "abort" /\ hist[i].v \in { "inOnInitRespond", "inOnPolling", "waiting" }

C4_OnAbortExactlyOnce ==
  (Configured("onAbort") /\ AbortedAfterInitialReply) => Count("onAbort.call") = 1

(***************************************************************************)
(* C5.  When onAbort, invoked by the abort-cleanup path (from the check at *)
(* the top of an iteration, or for an abort that arrives during the        *)
(* inter-poll wait), fails, the invocation rejects with onAbort's failure  *)
(* and not with AbortError: the failure is never lost.                     *)
(***************************************************************************)
OnAbortFailedInCleanup ==
  \E i \in 1..Len(hist) :
     hist[i].e = "onAbort.throw" /\ (hist[i].v = "loop" \/ AbortedInWait)

C5_OnAbortFailureWins ==
  OnAbortFailedInCleanup ~> (Rejected /\ result = HookError("onAbort"))

(***************************************************************************)
(* C6.  Every invocation settles exactly once: when the transport and the  *)
(* hooks return, and onPolling returns a truthy value or fails or the      *)
(* signal is aborted, the invocation reaches Resolved or Rejected, and it  *)
(* never settles twice.                                                    *)
(***************************************************************************)
PollingEnded ==
  \E i \in 1..Len(hist) :
     \/ hist[i].e = "onPolling.throw"
     \/ hist[i].e = "onPolling.return" /\ hist[i].v \in TruthyIds

C6_SettlesExactlyOnce ==
  /\ [](Count("resolved") + Count("rejected") <= 1)
  /\ ((signal = "aborted" \/ PollingEnded) ~> Settled)

(***************************************************************************)
(* C7.  A call with a polling block whose signal is already aborted at     *)
(* entry rejects with AbortError, the transport is never called and no     *)
(* hook (onRequest, onInitRespond, onPolling, onAbort) is invoked.         *)
(***************************************************************************)
\* the signal was aborted when the call was made
AbortedAtEntry ==
  /\ signal = "aborted"
  /\ \A i \in 1..Len(hist) : hist[i].e = "abort" => hist[i].v = "start"

C7_PreAbortedRejects ==
  (Has(init, "polling") /\ AbortedAtEntry /\ pc # "start") =>
    /\ Rejected
    /\ result = AbortError
    /\ fetchArgs = << >>
    /\ Count("fetch.call") = 0
    /\ NoHookCalled

\* a pre-aborted call with every hook configured has been rejected
C7_Witness ==
  /\ Has(init, "polling")
  /\ \A hook \in HookKeys : Has(init.polling, hook)
  /\ AbortedAtEntry
  /\ Rejected

(***************************************************************************)
(* C8.  When onInitRespond returns a truthy value, onPolling is invoked    *)
(* zero times and no wait timer is set, whether or not onPolling is        *)
(* configured, and the invocation is resolved with the reply derived from  *)
(* that value.                                                             *)
(***************************************************************************)
C8_InitInterceptSkipsPolling ==
  \A i \in 1..Len(hist) :
     (hist[i].e = "onInitRespond.return" /\ hist[i].v \in TruthyIds) =>
       /\ Count("onPolling.call") = 0
       /\ NoTimerEver
       /\ Resolved
       /\ pollResult.id = hist[i].v
       /\ IsReplyFor(result, pollResult)

\* onInitRespond returned a plain value although onPolling is configured
C8_Witness ==
  /\ Configured("onPolling")
  /\ Resolved
  /\ settledBy = "onInitRespond"
  /\ pollResult \in PlainValues

InitNotIntercepted ==
  \/ ~Configured("onInitRespond")
  \/ \E i \in 1..Len(hist) : hist[i].e = "onInitRespond.return" /\ hist[i].v \in FalsyIds

C10_NoPollingShortcut ==
  (Has(init, "polling") /\ ~Configured("onPolling")) =>
    /\ Count("onPolling.call") = 0
    /\ NoTimerEver
    /\ Len(fetchArgs) <= 1
    /\ (Happened("fetch.return") /\ InitNotIntercepted) =>
         /\ Resolved
         /\ result = TransportReply
         /\ result = context.initResponse
         /\ Len(fetchArgs) = 1

\* onInitRespond returned falsy, the signal was aborted on the way, and the
\* initial reply was returned
C10_Witness ==
  /\ Has(init, "polling")
  /\ ~Configured("onPolling")
  /\ Configured("onAbort")
  /\ Happened("onInitRespond.return")
  /\ Happened("abort")
  /\ Resolved
  /\ result = TransportReply

(***************************************************************************)
(* C11.  When onRequest fails, the invocation rejects with exactly that    *)
(* failure, the transport is never called and no other hook                *)
(* (onInitRespond, onPolling, onAbort) is invoked, whatever happens to the *)
(* signal afterwards.                                                      *)
(***************************************************************************)
C11_OnRequestFailure ==
  Happened("onRequest.throw") =>
    /\ Rejected
    /\ result = ErrorObj("onRequest")
    /\ fetchArgs = << >>
    /\ Count("fetch.call") = 0
    /\ Count("onRequest.call") = 1
    /\ Count("onInitRespond.call") = 0
    /\ Count("onPolling.call") = 0
    /\ Count("onAbort.call") = 0

\* onRequest failed with every hook configured, and the signal was aborted afterwards
C11_Witness ==
  /\ Happened("onRequest.throw")
  /\ \A hook \in HookKeys : Configured(hook)
  /\ \E i \in 1..Len(hist) : hist[i].e = "abort" /\ hist[i].v = "rejected"

(***************************************************************************)
(* C12.  When onInitRespond or onPolling fails, the invocation rejects     *)
(* with exactly that failure; the hook is not retried, no polling attempt  *)
(* and no wait timer follows, and the abort-cleanup path does not run for  *)
(* the failure: with the signal not aborted onAbort is invoked zero times. *)
(***************************************************************************)
HookFailures == { "onInitRespond.throw", "onPolling.throw" }

\* the hook whose failure the event e reports
FailedHook(e) == IF e = "onInitRespond.throw" THEN "onInitRespond" ELSE "onPolling"

C12_HookFailure ==
  \A i \in 1..Len(hist) :
     hist[i].e \in HookFailures =>
       /\ Rejected
       /\ result = ErrorObj(FailedHook(hist[i].e))
       /\ pendingTimers = {}
       /\ \A j \in (i + 1)..Len(hist) :
             hist[j].e \notin { "onInitRespond.call", "onPolling.call", "setTimeout",
                                "timer.fire", "fetch.call" }
       /\ NeverAborted => Count("onAbort.call") = 0

\* the second onPolling attempt failed with onAbort configured and the signal active
C12_Witness ==
  /\ Happened("onPolling.throw")
  /\ Count("onPolling.call") = 2
  /\ Configured("onAbort")
  /\ signal = "active"
  /\ Rejected

(***************************************************************************)
(* C13.  When the initial transport call fails, the invocation rejects     *)
(* with exactly that failure, the transport is not called again, and       *)
(* onInitRespond, onPolling and onAbort are each invoked zero times, also  *)
(* when the signal is aborted while the call is in flight or afterwards.   *)
(***************************************************************************)
C13_TransportFailure ==
  \A i \in 1..Len(hist) :
     (hist[i].e = "fetch.throw" /\ Has(init, "polling")) =>
       /\ Rejected
       /\ result = ErrorObj(hist[i].v)
       /\ Len(fetchArgs) = 1
       /\ Count("fetch.call") = 1
       /\ Count("onInitRespond.call") = 0
       /\ Count("onPolling.call") = 0
       /\ Count("onAbort.call") = 0

\* the transport failed after the signal was aborted in flight, with onAbort configured
C13_Witness ==
  /\ Happened("fetch.throw")
  /\ Configured("onAbort")
  /\ Configured("onPolling")
  /\ \E i \in 1..Len(hist) : hist[i].e = "abort" /\ hist[i].v = "inFetch"
  /\ Rejected

\* the transport failed and the signal was aborted afterwards, with onAbort configured
C13_WitnessAbortAfter ==
  /\ Happened("fetch.throw")
  /\ Configured("onAbort")
  /\ \E i \in 1..Len(hist) : hist[i].e = "abort" /\ hist[i].v = "rejected"

(***************************************************************************)
(* C14.  The configuration in effect for an invocation on an entry point   *)
(* made by create(baseConfig) is the shallow merge, key by key, of the     *)
(* built-in default {interval: 2000}, then baseConfig, then the call's     *)
(* polling block: the call's value wins over the factory's, which wins     *)
(* over the built-in default.  The hooks invoked and the waits are those   *)
(* of that configuration.                                                  *)
(***************************************************************************)
ConfigKeys == HookKeys \cup { "interval" }

\* key k of cfg is what the call, else the factory, else the built-in default sets
KeyByPrecedence(cfg, k) ==
  IF Has(init.polling, k) THEN Has(cfg, k) /\ cfg[k] = init.polling[k]
  ELSE IF Has(defaultConfig, k) THEN Has(cfg, k) /\ cfg[k] = defaultConfig[k]
  ELSE IF k = "interval" THEN Has(cfg, k) /\ cfg[k] = 2000
  ELSE ~Has(cfg, k)

\* the owner of the hook in effect: the call's, else the factory's
OwnerInEffect(hook) ==
  IF Has(init.polling, hook) THEN init.polling[hook] ELSE defaultConfig[hook]

HookOfCall(e) ==
  CASE e = "onRequest.call"     -> "onRequest"
    [] e = "onInitRespond.call" -> "onInitRespond"
    [] OTHER                    -> "onPolling"

OnlyInParent(k) ==
  /\ Has(init, "polling")
  /\ Has(parentConfig, k)
  /\ ~Has(defaultConfig, k)
  /\ ~Has(init.polling, k)

C15_ParentKeysInEffect ==
  (Has(init, "polling") /\ pc # "start") =>
    \A k \in ConfigKeys :
       OnlyInParent(k) => Has(mergedConfig, k) /\ mergedConfig[k] = parentConfig[k]

(***************************************************************************)
(* C15, amended.  create on an entry point is createPollingFetch itself:   *)
(* the new entry point's base configuration is the built-in default        *)
(* {interval: 2000} with newConfig over it.  A key set only in             *)
(* parentConfig is not in effect: a hook of the parent is absent and never *)
(* invoked, and the interval is 2000, not the parent's.                    *)
(***************************************************************************)
C15_ParentKeysDropped ==
  (Has(init, "polling") /\ pc # "start") =>
    /\ \A k \in ConfigKeys :
          OnlyInParent(k) =>
            IF k = "interval" THEN mergedConfig[k] = 2000 ELSE ~Has(mergedConfig, k)
    /\ \A i \in 1..Len(hist) :
          /\ hist[i].v # "parent"
          /\ (hist[i].e = "setTimeout" /\ OnlyInParent("interval")) => hist[i].n = 2000

\* the parent set onInitRespond and an interval of 900; the invocation went
\* from the initial reply straight to polling and waited 2000
C15_Witness ==
  /\ OnlyInParent("onInitRespond")
  /\ OnlyInParent("interval")
  /\ Count("onPolling.call") = 2
  /\ Count("onInitRespond.call") = 0
  /\ \E i \in 1..Len(hist) : hist[i].e = "setTimeout" /\ hist[i].n = 2000

(***************************************************************************)
(* C16.  As claimed: a call whose signal is already aborted at entry, with *)
(* or without a polling block, rejects with AbortError before any          *)
(* transport call (the transport is called zero times), and onAbort is     *)
(* invoked zero times.                                                     *)
(***************************************************************************)
C16_PreAbortedNeverCallsTransport ==
  (AbortedAtEntry /\ pc # "start") =>
    /\ fetchArgs = << >>
    /\ Settled => (Rejected /\ result = AbortError)
    /\ Count("onAbort.call") = 0

(***************************************************************************)
(* C16, amended.  With a polling block, a call whose signal is already     *)
(* aborted at entry rejects with AbortError and the transport is called    *)
(* zero times.  Without a polling block the call is passed to the          *)
(* transport, which is called once with the aborted signal among the       *)
(* options, and the call settles with the transport's outcome.  onAbort is *)
(* invoked zero times in both cases.                                       *)
(***************************************************************************)
C16_PreAbortedByCase ==
  (AbortedAtEntry /\ pc # "start") =>
    /\ Count("onAbort.call") = 0
    /\ IF Has(init, "polling")
         THEN Rejected /\ result = AbortError /\ fetchArgs = << >>
         ELSE /\ Len(fetchArgs) = 1
              /\ Has(fetchArgs[1].init, "signal")
              /\ fetchArgs[1].init.signal = init.signal
              /\ Resolved => (Happened("fetch.return") /\ result = TransportReply)
              /\ Rejected => \E i \in 1..Len(hist) :
                                hist[i].e = "fetch.throw" /\ result = ErrorObj(hist[i].v)

\* a pass-through call with a pre-aborted signal whose transport replied all the same
C16_Witness ==
  /\ AbortedAtEntry
  /\ ~Has(init, "polling")
  /\ Resolved
  /\ Len(fetchArgs) = 1

(***************************************************************************)
(* C17.  As claimed: when the signal is aborted while the initial          *)
(* transport call is in flight and the transport still returns a reply,    *)
(* then with onPolling and onAbort configured and onInitRespond absent or  *)
(* falsy, onPolling is invoked zero times, onAbort once with the context   *)
(* holding the initial reply, and the invocation rejects with AbortError   *)
(* and its fixed message.                                                  *)
(***************************************************************************)
AbortedInFetchThenReplied ==
  /\ \E i \in 1..Len(hist) : hist[i].e = "abort" /\ hist[i].v = "inFetch"
  /\ Happened("fetch.return")
  /\ Configured("onPolling")
  /\ Configured("onAbort")
  /\ InitNotIntercepted

\* onAbort was invoked once, from the loop, after the initial reply was stored
OnAbortOnceWithReply ==
  /\ Count("onAbort.call") = 1
  /\ \A i \in 1..Len(hist) : hist[i].e = "onAbort.call" => hist[i].v = "loop"
  /\ context.initResponse = TransportReply

C17_AbortInFetchRejects ==
  AbortedInFetchThenReplied =>
    /\ Count("onPolling.call") = 0
    /\ OnAbortOnceWithReply
    /\ ~Resolved
    /\ Rejected => (result = AbortError /\ result.body = "The user aborted a request.")

(***************************************************************************)
(* C17, amended.  The same, except for the failure the invocation rejects  *)
(* with: AbortError with its fixed message when onAbort returns, and       *)
(* onAbort's own failure when onAbort fails.                               *)
(***************************************************************************)
C17_AbortInFetchRejectsOrOnAbortFails ==
  AbortedInFetchThenReplied =>
    /\ Count("onPolling.call") = 0
    /\ OnAbortOnceWithReply
    /\ ~Resolved
    /\ pc \in { "inOnAbort", "rejected" }
    /\ pc = "inOnAbort" <=> ~(Happened("onAbort.return") \/ Happened("onAbort.throw"))
    /\ (Rejected /\ Happened("onAbort.return")) =>
         (result = AbortError /\ result.body = "The user aborted a request.")
    /\ (Rejected /\ Happened("onAbort.throw")) => result = ErrorObj("onAbort")

\* aborted during the fetch, onInitRespond returned falsy, onAbort returned, AbortError
C17_Witness ==
  /\ AbortedInFetchThenReplied
  /\ Happened("onInitRespond.return")
  /\ Happened("onAbort.return")
  /\ Rejected
  /\ result = AbortError

(***************************************************************************)
(* C18.  Within one invocation the events occur only in the order          *)
(* onRequest, transport call, onInitRespond, then alternating onPolling    *)
(* attempts and waits: onRequest never after the transport call,           *)
(* onInitRespond never before the transport reply, onPolling never before  *)
(* onInitRespond has returned, the transport called at most once, and the  *)
(* attempts numbered by the retry counter in order.                        *)
(***************************************************************************)
EventNames ==
  { "onRequest.call", "onRequest.return", "onRequest.throw",
    "fetch.call", "fetch.return", "fetch.throw",
    "onInitRespond.call", "onInitRespond.return", "onInitRespond.throw",
    "onPolling.call", "onPolling.return", "onPolling.throw", "setTimeout", "timer.fire",
    "onAbort.call", "onAbort.return", "onAbort.throw", "abort", "clearTimeout",
    "resolved", "rejected" }

\* the phase of each event of the log; 0 for those outside the order
PhaseOf ==
  [e \in EventNames |->
     CASE e \in { "onRequest.call", "onRequest.return", "onRequest.throw" } -> 1
       [] e \in { "fetch.call", "fetch.return", "fetch.throw" } -> 2
       [] e \in { "onInitRespond.call", "onInitRespond.return", "onInitRespond.throw" } -> 3
       [] e \in { "onPolling.call", "onPolling.return", "onPolling.throw",
                  "setTimeout", "timer.fire" } -> 4
       [] OTHER -> 0]

Phase(ev) == PhaseOf[ev.e]

InPhase(ev) == Phase(ev) > 0

Before(e, i) == \E j \in 1..(i - 1) : hist[j].e = e

RejectedWithAbortAfterReply ==
  /\ Rejected
  /\ result = AbortError
  /\ Truthy(context.initResponse)
  /\ Configured("onAbort")

\* onAbort was invoked with the context as it is and returned before the rejection
OnAbortCompletedBeforeRejection ==
  \E i \in 1..Len(hist) :
    /\ hist[i].e = "onAbort.call" /\ hist[i].n = context.retryCount
    /\ \E j \in (i + 1)..Len(hist) :
         /\ hist[j].e = "onAbort.return" /\ hist[j].v = hist[i].v
         /\ \E k \in (j + 1)..Len(hist) : hist[k].e = "rejected"

C19_CleanupBeforeAbortError ==
  RejectedWithAbortAfterReply =>
    /\ OnAbortCompletedBeforeRejection
    /\ pendingTimers = {}
    /\ currentTimeout = 0

\* a wait had been started and had ended before the abort was seen at the loop's top
C19_Witness ==
  /\ RejectedWithAbortAfterReply
  /\ Count("timer.fire") = 1
  /\ \E i \in 1..Len(hist) : hist[i].e = "abort" /\ hist[i].v = "inOnPolling"

(***************************************************************************)
(* C20.  As claimed: cancellation is observed only before a polling        *)
(* attempt and during the wait; while the transport call, onInitRespond or *)
(* an onPolling attempt is in flight an abort causes no abort-cleanup, so  *)
(* onAbort never runs concurrently with an in-flight transport call or     *)
(* hook.                                                                   *)
(***************************************************************************)
InFlight == pc \in { "inFetch", "inOnInitRespond", "inOnPolling" }

\* the abort logged at position i arrived while a call or a hook was in flight
AbortInFlightAt(i) ==
  /\ hist[i].e = "abort"
  /\ hist[i].v \in { "inFetch", "inOnInitRespond", "inOnPolling" }

C20_NoCleanupWhileInFlight ==
  /\ InFlight => listenerPc # "inOnAbort"
  /\ \A i \in 1..Len(hist) :
       (AbortInFlightAt(i) /\ i < Len(hist)) =>
         hist[i + 1].e \notin { "onAbort.call", "clearTimeout" }

(***************************************************************************)
(* C21.  In every reachable state, onAbort, onInitRespond and onPolling    *)
(* have been invoked only after the initial transport call returned a      *)
(* reply: none of them is invoked for a pre-aborted invocation, a failed   *)
(* onRequest, a failed initial request, or an abort that arrives before    *)
(* the initial reply.                                                      *)
(***************************************************************************)
ContextHookCalls == { "onAbort.call", "onInitRespond.call", "onPolling.call" }

NoContextHookCalled == \A i \in 1..Len(hist) : hist[i].e \notin ContextHookCalls

C21_ContextHooksNeedReply ==
  /\ \A i \in 1..Len(hist) :
       hist[i].e \in ContextHookCalls =>
         /\ Before("fetch.return", i)
         /\ context.initResponse = TransportReply
  /\ (Rejected /\ settledBy \in { "precheck", "onRequest", "transport" }) =>
       NoContextHookCalled
  /\ ~Happened("fetch.return") => NoContextHookCalled

\* the abort arrived during the transport call, which then failed, with all three hooks set
C21_Witness ==
  /\ \E i \in 1..Len(hist) : hist[i].e = "abort" /\ hist[i].v = "inFetch"
  /\ Happened("fetch.throw")
  /\ Rejected
  /\ ContextHookCalls \subseteq { h \o ".call" : h \in DOMAIN mergedConfig }
  /\ NoContextHookCalled

(***************************************************************************)
(* C22.  On every exit path (resolved result, hook failure, transport      *)
(* failure, cancellation) no wait timer of the invocation is pending once  *)
(* it has settled: every timer it scheduled has elapsed or was cancelled   *)
(* before or at settlement.                                                *)
(***************************************************************************)
SettledAt(k) == hist[k].e \in { "resolved", "rejected" }

\* timer id had fired or had been cleared before position k of the log
ReleasedBefore(id, k) ==
  \E i \in 1..(k - 1) : hist[i].e \in { "timer.fire", "clearTimeout" } /\ hist[i].n = id

C22_NoTimerPendingAtSettlement ==
  Settled =>
    /\ pendingTimers = {}
    /\ Count("setTimeout") = timerSeq
    /\ \A k \in 1..Len(hist) :
         SettledAt(k) => \A id \in 1..timerSeq : ReleasedBefore(id, k)

\* a hook failure on the third attempt, after two waits
C22_Witness ==
  /\ Rejected
  /\ settledBy = "onPolling"
  /\ timerSeq = 2
  /\ Count("timer.fire") = 2

(***************************************************************************)
(* C23.  In every reachable state of one invocation at most one onPolling  *)
(* attempt is in flight and at most one wait timer is pending, never both  *)
(* at once: an attempt starts only after the previous attempt has returned *)
(* and the wait that followed it has elapsed.                              *)
(***************************************************************************)
AttemptsInFlight ==
  Count("onPolling.call") - Count("onPolling.return") - Count("onPolling.throw")

C23_StrictlySequential ==
  LET pt == PollTrace
      a  == AttemptsInFlight
  IN /\ a \in { 0, 1 }
     /\ a = 1 <=> pc = "inOnPolling"
     /\ Cardinality(pendingTimers) <= 1
     /\ ~(a = 1 /\ pendingTimers # {})
     /\ pendingTimers # {} => (pc = "waiting" /\ pendingTimers = { currentTimeout })
     /\ \A j \in 2..Len(pt) :
          pt[j].e = "onPolling.call" =>
            /\ pt[j - 1].e = "timer.fire"
            /\ pt[j - 2].e = "setTimeout"
            /\ pt[j - 3].e = "onPolling.return"

\* the third attempt is in flight, after two attempts and two waits
C23_Witness ==
  /\ pc = "inOnPolling"
  /\ context.retryCount = 2
  /\ Count("timer.fire") = 2
  /\ pendingTimers = {}

(***************************************************************************)
(* C24.  The retry counter is 0 when the context is first passed to a      *)
(* hook, increases by exactly 1 after each onPolling attempt that returns  *)
(* falsy, before the wait begins, and changes at no other time: it never   *)
(* decreases and the n-th onPolling attempt observes n-1.                  *)
(***************************************************************************)
\* the step appends the falsy return of an attempt and then the start of the wait
FalsyReturnStep ==
  /\ Len(hist') = Len(hist) + 2
  /\ hist'[Len(hist) + 1].e = "onPolling.return"
  /\ hist'[Len(hist) + 1].v \in FalsyIds
  /\ hist'[Len(hist) + 2].e = "setTimeout"

\* the step appends the return of an attempt, whatever it returned
ReturnStep ==
  /\ Len(hist') > Len(hist)
  /\ hist'[Len(hist) + 1].e = "onPolling.return"

RetryCounterStep ==
  /\ context'.retryCount # context.retryCount =>
       (context'.retryCount = context.retryCount + 1 /\ FalsyReturnStep)
  /\ (ReturnStep /\ hist'[Len(hist) + 1].v \in FalsyIds) =>
       (context'.retryCount = context.retryCount + 1 /\ FalsyReturnStep)

NoContextHookCalledBefore(i) ==
  \A j \in 1..(i - 1) : hist[j].e \notin ContextHookCalls

RetryCounterObserved ==
  /\ context.retryCount = Cardinality({ i \in 1..Len(hist) :
        hist[i].e = "onPolling.return" /\ hist[i].v \in FalsyIds })
  /\ \A i \in 1..Len(hist) :
       /\ (hist[i].e \in ContextHookCalls /\ NoContextHookCalledBefore(i)) => hist[i].n = 0
       /\ hist[i].e = "onPolling.call" =>
            hist[i].n = Cardinality({ j \in 1..(i - 1) : hist[j].e = "onPolling.call" })

C24_RetryCounter == []RetryCounterObserved /\ [][RetryCounterStep]_vars

\* the third attempt observed 2
C24_Witness ==
  \E i \in 1..Len(hist) :
    /\ hist[i].e = "onPolling.call"
    /\ hist[i].n = 2
    /\ Cardinality({ j \in 1..i : hist[j].e = "onPolling.call" }) = 3

(***************************************************************************)
(* C25.  The descriptor passed to the transport is the pending descriptor  *)
(* (the resource plus the call's options, without the polling block)       *)
(* shallow-overridden by what onRequest returned: every key onRequest      *)
(* returns replaces the pending value, every other key keeps its pending   *)
(* value, and the polling block is never passed to the transport.          *)
(***************************************************************************)
\* the pending descriptor's keys and values, read from the call itself
PendingKeys == { "input" } \cup (DOMAIN init \ { "polling" })

Pending(k) == IF k = "input" THEN input ELSE init[k]

\* what onRequest returned, read from the log; nothing when it was not invoked
OnRequestReturned ==
  IF Happened("onRequest.return")
    THEN CHOOSE r \in OnRequestReturns :
           \E i \in 1..Len(hist) :
             hist[i].e = "onRequest.return" /\ hist[i].v = DescriptorId(r)
    ELSE EmptyObj

C26_OnAbortOnlyBeforeRejection ==
  \A i, k \in 1..Len(hist) :
    (i < k /\ hist[i].e = "onAbort.call") => hist[k].e # "resolved"

(***************************************************************************)
(* C27.  As claimed: after an invocation has settled none of its hooks is  *)
(* invoked any more; an abort of the signal after settlement does not      *)
(* invoke onAbort with that invocation's context.                          *)
(***************************************************************************)
C27_NoHookAfterSettlement ==
  \A k, i \in 1..Len(hist) :
    (k < i /\ SettledAt(k)) => hist[i].e \notin HookCalls

(***************************************************************************)
(* C28.  Two invocations running concurrently from the same entry point    *)
(* with different signals do not interfere: aborting the signal of one     *)
(* never cancels the other's wait timer, never invokes the other's         *)
(* onAbort, never changes the other's retry counter and never changes the  *)
(* other's outcome.                                                        *)
(***************************************************************************)
\* the first invocation's own state, and its wait timer when it is waiting
FirstUntouched ==
  /\ UNCHANGED << pc, context, currentTimeout, listenerPc, settledBy, result, unhandled, hist >>
  /\ currentTimeout \in pendingTimers => currentTimeout \in pendingTimers'

SecondUntouched ==
  /\ UNCHANGED other
  /\ other.currentTimeout \in pendingTimers => other.currentTimeout \in pendingTimers'

AbortOfFirst == signal = "active" /\ signal' = "aborted"

AbortOfSecond == other.signal = "active" /\ other'.signal = "aborted"

NoInterferenceStep ==
  /\ AbortOfSecond => FirstUntouched
  /\ AbortOfFirst => SecondUntouched

\* an invocation's wait ends early, and its onAbort runs, only on its own signal
OwnSignalOnly ==
  /\ (pc = "waiting" /\ signal # "aborted") => currentTimeout \in pendingTimers
  /\ (other.pc = "waiting" /\ other.signal # "aborted") =>
       other.currentTimeout \in pendingTimers
  /\ Happened("onAbort.call") => signal = "aborted"
  /\ other.onAbortCalls > 0 => other.signal = "aborted"

C28_NoInterference == []OwnSignalOnly /\ [][NoInterferenceStep]_vars

\* the second's signal was aborted during its wait, which cancelled its timer;
\* the first, never aborted, went through two waits of its own and resolved
C28_Witness ==
  /\ Resolved
  /\ signal = "active"
  /\ Count("timer.fire") = 2
  /\ Count("onAbort.call") = 0
  /\ other.pc = "waiting"
  /\ other.signal = "aborted"
  /\ other.retryCount = 1

(***************************************************************************)
(* C29.  Factory defaults take effect only when the call itself carries a  *)
(* polling block: a call without one, on an entry point made by            *)
(* create(baseConfig), is a plain pass-through even when baseConfig sets   *)
(* onRequest, onInitRespond, onPolling or onAbort; none of those hooks is  *)
(* invoked and no polling occurs.                                          *)
(***************************************************************************)
DefaultHooks == DOMAIN defaultConfig \cap HookKeys

\* a default hook was invoked: the log names the owner of each hook it calls
DefaultHookInvoked ==
  \E i \in 1..Len(hist) : hist[i].e \in HookCalls /\ hist[i].v = "factory"

C29_DefaultsNeedPollingBlock ==
  /\ (~Has(init, "polling") /\ pc # "start") =>
       /\ NoHookCalled
       /\ NoTimerEver
       /\ mergedConfig = EmptyObj
       /\ Len(fetchArgs) = 1
       /\ fetchArgs[1] = [input |-> input, init |-> init]
       /\ Resolved => (result = TransportReply /\ settledBy = "transport")
       /\ Rejected => settledBy = "transport"
  /\ DefaultHookInvoked => Has(init, "polling")

\* a pass-through on an entry point whose defaults set onPolling and onAbort,
\* resolved with the transport's reply and aborted afterwards
C29_Witness ==
  /\ ~Has(init, "polling")
  /\ DefaultHooks = { "onPolling", "onAbort" }
  /\ Resolved
  /\ signal = "aborted"
  /\ ~AbortedAtEntry

(***************************************************************************)
(* C30.  As claimed: when onPolling is absent from the effective           *)
(* configuration, AbortError is raised by the entry pre-check only; an     *)
(* abort during onRequest, the transport call or onInitRespond never makes *)
(* the invocation reject with AbortError, and if the transport returns a   *)
(* reply the invocation resolves.                                          *)
(***************************************************************************)
PollingWithoutOnPolling ==
  /\ Has(init, "polling")
  /\ ~Configured("onPolling")
  /\ pc # "start"

AbortedAfterPreCheck ==
  \E i \in 1..Len(hist) :
    hist[i].e = "abort" /\ hist[i].v \in { "inOnRequest", "inFetch", "inOnInitRespond" }

C30_NoOnPollingResolves ==
  (PollingWithoutOnPolling /\ AbortedAfterPreCheck) =>
    /\ result # AbortError
    /\ (Happened("fetch.return") /\ Settled) => Resolved

(***************************************************************************)
(* C30, amended.  The same, except that after the transport's reply the    *)
(* invocation resolves unless onInitRespond fails, and then rejects with   *)
(* onInitRespond's failure.                                                *)
(***************************************************************************)
C30_NoOnPollingNoAbortError ==
  PollingWithoutOnPolling =>
    /\ result = AbortError => (settledBy = "precheck" /\ AbortedAtEntry /\ fetchArgs = << >>)
    /\ pc \notin { "inOnPolling", "waiting", "inOnAbort" }
    /\ AbortedAfterPreCheck =>
         /\ result # AbortError
         /\ (Happened("fetch.return") /\ Settled) =>
              IF Happened("onInitRespond.throw")
                THEN Rejected /\ result = HookError("onInitRespond")
                ELSE Resolved
         /\ (Happened("fetch.return") /\ pc # "inOnInitRespond") => Settled

\* aborted while onInitRespond was in flight; the hook returned falsy and the
\* invocation resolved with the initial reply
C30_Witness ==
  /\ PollingWithoutOnPolling
  /\ \E i \in 1..Len(hist) : hist[i].e = "abort" /\ hist[i].v = "inOnInitRespond"
  /\ Resolved
  /\ settledBy = "initResponse"
  /\ result = TransportReply

(***************************************************************************)
(* C31.  An invocation leaves the entry point's captured default           *)
(* configuration unchanged: after any sequence of invocations with any     *)
(* per-call polling blocks, a later invocation on the same entry point     *)
(* sees exactly the defaults given at creation, and no key of an earlier   *)
(* per-call block is in effect for it.                                     *)
(***************************************************************************)
\* key k was set by the remembered earlier block and by nothing of this invocation
OnlyInEarlier(k) ==
  /\ ~Has(earlier, "none")
  /\ Has(earlier, k)
  /\ ~Has(init.polling, k)
  /\ ~Has(defaultConfig, k)

C31_DefaultsUnchanged ==
  /\ config = Spread([interval |-> 2000], defaultConfig)
  /\ (Has(init, "polling") /\ pc # "start") =>
       /\ \A k \in ConfigKeys :
            /\ KeyByPrecedence(mergedConfig, k)
            /\ OnlyInEarlier(k) =>
                 IF k = "interval" THEN mergedConfig[k] = 2000 ELSE ~Has(mergedConfig, k)
       /\ \A i \in 1..Len(hist) :
            hist[i].e \in HookCalls =>
              LET hook == IF hist[i].e = "onAbort.call" THEN "onAbort"
                          ELSE HookOfCall(hist[i].e)
              IN ~OnlyInEarlier(hook)

\* an earlier invocation set every hook and an interval of 100; this one, with
\* an empty polling block on an entry point without defaults, invoked no hook
\* and resolved with the initial reply
C31_Witness ==
  /\ earlier = Config(HookKeys, 100, "call")
  /\ Has(init, "polling")
  /\ init.polling = EmptyObj
  /\ defaultConfig = EmptyObj
  /\ mergedConfig = [interval |-> 2000]
  /\ Resolved
  /\ NoHookCalled

(***************************************************************************)
(* C32.  Releasing the wait timer is idempotent: releasing when no timer   *)
(* was ever set, when the timer has already been released, or after the    *)
(* invocation has settled changes no state, and two consecutive releases   *)
(* leave the same state as one.                                            *)
(***************************************************************************)
\* cleanup() applied to the state (ct, pend) changes nothing and clears nothing
ReleaseIsNoOp(ct, pend) ==
  LET c == cleanup(ct, pend)
  IN /\ c.currentTimeout = ct
     /\ c.pendingTimers = pend
     /\ ~c.cleared
     /\ cleanupHist(hist, ct) = hist

C32_ReleaseIdempotent ==
  LET once  == cleanup(currentTimeout, pendingTimers)
      twice == cleanup(once.currentTimeout, once.pendingTimers)
  IN /\ twice.currentTimeout = once.currentTimeout
     /\ twice.pendingTimers = once.pendingTimers
     /\ ReleaseIsNoOp(once.currentTimeout, once.pendingTimers)
     /\ currentTimeout = 0 => ReleaseIsNoOp(currentTimeout, pendingTimers)
     /\ Settled => ReleaseIsNoOp(currentTimeout, pendingTimers)
     /\ once.cleared => (currentTimeout # 0 /\ once.currentTimeout = 0)

\* the timer was released at settlement, after one wait; the signal was aborted
\* afterwards and the listener's release cleared nothing more
C32_Witness ==
  /\ Settled
  /\ \E i \in 1..Len(hist) : hist[i].e = "abort" /\ hist[i].v \in { "resolved", "rejected" }
  /\ Count("setTimeout") = 1
  /\ Count("clearTimeout") = 1
  /\ currentTimeout = 0

====
